---- MODULE Spec2Model ----
(***************************************************************************)
(* The incremental market recorder of dhan_incremental_util.py: a          *)
(* RingBuffer shared by the ingest task (market_data_loop) and the flush   *)
(* task (parquet_flush), and MarketRecorder.run, which starts both tasks   *)
(* and performs the final flush when it is cancelled.                      *)
(*                                                                         *)
(* Both tasks run on one asyncio event loop, so the code between two       *)
(* awaits is one atomic step: a whole received payload is drained in one   *)
(* step (the only await of market_data_loop's loop is ws.recv) and a whole *)
(* flush tick is one step (the only await is asyncio.sleep).               *)
(*                                                                         *)
(* Spec is the recorder with these atomic steps. SpecDrain is one drain of *)
(* market_data_loop for a wider range of payloads. SpecIO is the recorder  *)
(* with the file work of a flush tick as a step of its own, during which   *)
(* the event loop is held by parquet_flush.                                *)
(***************************************************************************)
EXTENDS Integers, Sequences, FiniteSets

\* ---------------------------------------------------------------- bounds
\* Capacities 1..MaxSize are explored (buffer_size of __init__).
MaxSize == 3
\* Rows appended in one run of the recorder.
MaxAppends == 3
\* Minutes the wall clock may advance.
MaxClock == 2
\* Time slots ("%H_%M" labels) of one calendar day, scaled down from 1440.
SlotsPerDay == 2
\* Updates chained in one raw payload (remaining_data continuations).
MaxChain == 1
\* Depth levels of one update.
MaxDepth == 1
\* The same two bounds for the payloads of SpecDrain, the drain alone.
WideChain == 3
WideDepth == 2

VARIABLES
    ring,               \* self.ring: [size, buffer, write_idx, full]
    last_flush_idx,     \* self.last_flush_idx
    parquet_writer,     \* self.parquet_writer: NoWriter or an index of writers
    current_file_path,  \* self.current_file_path: NoPath or <<day, slot>>
    writers,            \* every pq.ParquetWriter constructed so far, in order
    final_files,        \* the row sequences written by pq.write_table(.., FINAL)
    clock,              \* the wall clock datetime.now() reads, in minutes
    mdl_pc,             \* the market_data_loop task
    pf_pc,              \* the parquet_flush task
    run_pc,             \* the run() coroutine
    raw,                \* market_data_loop's local: the payload being drained
    appended,           \* history: every row handed to ring.append, in order
    tick,               \* history: the locals of the last parquet_flush iteration
    steps               \* history: the statements of run()'s handler executed

vars == <<ring, last_flush_idx, parquet_writer, current_file_path, writers,
          final_files, clock, mdl_pc, pf_pc, run_pc, raw, appended, tick,
          steps>>

\* self.parquet_writer = None
NoWriter == 0
\* self.current_file_path = None
NoPath == <<>>
\* A slot of np.empty that was never assigned.
NoRow == [ts |-> 0, side |-> "", level |-> 0]

\* ------------------------------------------------------------ RingBuffer

\* RingBuffer.__init__
RingBuffer(size) ==
    [size |-> size, buffer |-> [i \in 0..(size - 1) |-> NoRow],
     write_idx |-> 0, full |-> FALSE]

\* A defect of append: the wrap of write_idx is not recorded in full.
append_nofull(rb, row) ==
    [rb EXCEPT !.buffer[rb.write_idx] = row,
               !.write_idx = (rb.write_idx + 1) % rb.size]

\* A defect of append: write_idx is advanced before the slot is written.
append_writes_next(rb, row) ==
    LET w == (rb.write_idx + 1) % rb.size
    IN  [rb EXCEPT !.buffer[w] = row,
                   !.write_idx = w,
                   !.full = IF w = 0 THEN TRUE ELSE rb.full]

\* RingBuffer.append
append(rb, row) ==
    LET w == (rb.write_idx + 1) % rb.size
    IN  [rb EXCEPT !.buffer[rb.write_idx] = row,
                   !.write_idx = w,
                   !.full = IF w = 0 THEN TRUE ELSE rb.full]

\* buffer[a:b] of numpy, 0 <= a <= b <= size, as a sequence.
slice(rb, a, b) == [k \in 1..(b - a) |-> rb.buffer[a + k - 1]]

\* A defect of linear_view: a full buffer is returned in slot order.
linear_view_norotate(rb) ==
    IF ~rb.full THEN slice(rb, 0, rb.write_idx) ELSE slice(rb, 0, rb.size)

\* RingBuffer.linear_view
linear_view(rb) ==
    IF ~rb.full
    THEN slice(rb, 0, rb.write_idx)
    ELSE slice(rb, rb.write_idx, rb.size) \o slice(rb, 0, rb.write_idx)

\* ------------------------------------------------------- feed collaborator

\* What fd.process_data returns for the head of a payload: parsed = FALSE is
\* a falsy result; otherwise an update with its type and its depth levels.
Updates ==
    [parsed : {TRUE}, type : {"Bid", "Ask", "Trade"}, depth : 0..MaxDepth]
    \cup {[parsed |-> FALSE, type |-> "", depth |-> 0]}

\* The raw payloads ws.recv may deliver: a chain of updates, the tail of a
\* chain being the remaining_data of its head.
Payloads == UNION {[1..n -> Updates] : n \in 0..MaxChain}

\* A defect of the level loop: the levels are appended deepest first.
RECURSIVE levels_reversed(_, _)
levels_reversed(update, k) ==
    IF k > update.depth THEN <<>>
    ELSE levels_reversed(update, k + 1)
             \o <<[side |-> update.type, level |-> k]>>

\* `for level in update["depth"]`: one row per depth level, from level k on,
\* each a (side, level) pair still to be stamped with time.time_ns().
RECURSIVE levels(_, _)
levels(update, k) ==
    IF k > update.depth THEN <<>>
    ELSE <<[side |-> update.type, level |-> k]>> \o levels(update, k + 1)

\* A defect of the drain: the kind of an update is not tested, and updates
\* of every kind are appended.
RECURSIVE drain_any_kind(_)
drain_any_kind(chain) ==
    IF chain = <<>> THEN <<>>
    ELSE LET update == Head(chain)
         IN  IF ~update.parsed THEN <<>>
             ELSE levels(update, 1) \o drain_any_kind(Tail(chain))

\* The inner while loop of market_data_loop: the rows appended, in order,
\* while draining chain, the value of `remaining`.
RECURSIVE drain(_)
drain(chain) ==
    IF chain = <<>> THEN <<>>
    ELSE LET update == Head(chain)
         IN  IF ~update.parsed THEN <<>>
             ELSE IF update.type \notin {"Bid", "Ask"}
                  THEN drain(Tail(chain))
                  ELSE levels(update, 1) \o drain(Tail(chain))

\* The rows as ring.append receives them: ts is time.time_ns() at the append,
\* here the ordinal of the append, which tells the rows apart.
stamp(rows, n) ==
    [k \in 1..Len(rows) |->
        [ts |-> n + k, side |-> rows[k].side, level |-> rows[k].level]]

\* Payloads that drain to the same rows take the recorder through the same
\* step: one payload of each kind is fed.
Feed == {CHOOSE p \in Payloads : drain(p) = rows :
            rows \in {drain(p) : p \in Payloads}}

RECURSIVE append_all(_, _)
append_all(rb, rows) ==
    IF rows = <<>> THEN rb ELSE append_all(append(rb, Head(rows)), Tail(rows))

\* ------------------------------------------------------------ wall clock

\* datetime.now().strftime("%Y-%m-%d") at minute t
Day(t) == t \div SlotsPerDay
\* datetime.now().strftime("%H_%M") at minute t
Slot(t) == t % SlotsPerDay

\* ---------------------------------------------------------- ParquetWriter

\* pq.ParquetWriter(file_path, ...): a writer object, open, nothing written.
ParquetWriter(file_path) ==
    [path |-> file_path, is_open |-> TRUE, rows |-> <<>>, closes |-> 0,
     late |-> 0]

\* A defect of the rollover: the old writer is not closed.
close_forgotten(w) == w

\* ParquetWriter.close(); closes counts the calls.
close(w) == [w EXCEPT !.is_open = FALSE, !.closes = @ + 1]

\* ParquetWriter.write_table(table); late counts the calls on a closed
\* writer.
write_table(w, rows) ==
    [w EXCEPT !.rows = @ \o rows,
              !.late = IF w.is_open THEN @ ELSE @ + 1]

\* A defect of the rollover test: a writer, once open, is kept for ever.
need_open_never_rolls(pw, cur, file_path) == pw = NoWriter

\* parquet_flush: `self.parquet_writer is None or
\* self.current_file_path != file_path`
need_open(pw, cur, file_path) == pw = NoWriter \/ cur # file_path

\* ------------------------------------------------------------------ Init

Init ==
    /\ ring \in {RingBuffer(c) : c \in 1..MaxSize}
    /\ last_flush_idx = 0
    /\ parquet_writer = NoWriter
    /\ current_file_path = NoPath
    /\ writers = <<>>
    /\ final_files = <<>>
    /\ clock = 0
    /\ mdl_pc = "new"
    /\ pf_pc = "new"
    /\ run_pc = "idle"
    /\ raw = <<>>
    /\ appended = <<>>
    /\ tick = [outcome |-> "none", before |-> 0, new_rows |-> <<>>,
               file_path |-> NoPath, window |-> <<>>, mark |-> 0,
               second |-> FALSE, over |-> <<>>]
    /\ steps = <<>>

\* The wall clock moves on by a minute; it never goes back.
advance_clock ==
    /\ clock < MaxClock
    /\ clock' = clock + 1
    /\ UNCHANGED <<raw, ring, last_flush_idx, parquet_writer, current_file_path,
                   writers, final_files, mdl_pc, pf_pc, run_pc, appended,
                   tick, steps>>

\* ------------------------------------------------------------------- run

\* run(): both tasks are created, run awaits their gather.
run_start ==
    /\ run_pc = "idle"
    /\ run_pc' = "gather"
    /\ mdl_pc' = "connect"
    /\ pf_pc' = "sleep"
    /\ UNCHANGED <<raw, ring, last_flush_idx, parquet_writer, current_file_path,
                   writers, final_files, clock, appended, tick, steps>>

\* What `await asyncio.gather(*self._tasks)` does to run() when a task
\* raises an exception that is not CancelledError: the exception is raised
\* in run(), no except clause matches it, and it leaves run(). The other
\* task is not cancelled.
gather_raises(pc) == IF pc = "gather" THEN "failed" ELSE pc

\* ------------------------------------------------------ market_data_loop

\* `await self.fd.connect()` returns.
mdl_connect ==
    /\ mdl_pc = "connect"
    /\ mdl_pc' = "recv"
    /\ UNCHANGED <<raw, ring, last_flush_idx, parquet_writer, current_file_path,
                   writers, final_files, clock, pf_pc, run_pc, appended,
                   tick, steps>>

\* connect() or ws.recv() raises: the task ends with that exception.
mdl_fails ==
    /\ mdl_pc \in {"connect", "recv"}
    /\ mdl_pc' = "failed"
    /\ run_pc' = gather_raises(run_pc)
    /\ UNCHANGED <<raw, ring, last_flush_idx, parquet_writer, current_file_path,
                   writers, final_files, clock, pf_pc, appended, tick, steps>>

\* Lines 65-84, from `remaining = raw` to the end of the inner loop: the
\* chain of updates in payload is drained and its rows are appended, with no
\* await in between.
mdl_drain(payload) ==
    /\ LET rows == stamp(drain(payload), Len(appended))
       IN  /\ Len(appended) + Len(rows) <= MaxAppends
           /\ ring' = append_all(ring, rows)
           /\ appended' = appended \o rows
    /\ UNCHANGED <<last_flush_idx, parquet_writer, current_file_path, writers,
                   final_files, clock, pf_pc, run_pc, tick, steps>>

\* One iteration of the outer loop: ws.recv() delivers payload, and the chain
\* of updates in it is drained before the next recv. At the await `raw` is
\* dead (the recv assigns it anew) and is kept empty.
mdl_recv(payload) ==
    /\ mdl_pc = "recv"
    /\ mdl_drain(payload)
    /\ UNCHANGED <<mdl_pc, raw>>

\* --------------------------------------------------------- parquet_flush

\* A defect of line 99: a view as long as the cursor counts as new.
nothing_new_strict(total_rows, last) == total_rows < last

\* A defect of line 99: only an empty view is skipped.
nothing_new_only_empty(total_rows, last) == total_rows = 0

\* line 99: `total_rows <= self.last_flush_idx`
nothing_new(total_rows, last) == total_rows <= last

\* Lines 96-113, the locals of a tick whose second datetime.now() reads t2
\* (the first reads clock), with the history the tick leaves in `tick`.
tick_locals(t2) ==
    LET data == linear_view(ring)
        total_rows == Len(data)
        new_rows == SubSeq(data, last_flush_idx + 1, total_rows)
        today == Day(clock)
        time_slot == Slot(t2)
    IN  [total_rows |-> total_rows,
         new_rows |-> new_rows,
         file_path |-> <<today, time_slot>>,
         before |-> last_flush_idx,
         window |-> SubSeq(appended, tick.mark + 1, Len(appended)),
         mark |-> Len(appended),
         second |-> tick.outcome # "none",
         over |-> tick.over \o new_rows]

\* The history a tick with locals l leaves.
tick_record(l, outcome) ==
    [outcome |-> outcome, before |-> l.before,
     new_rows |-> IF outcome = "noop" THEN <<>> ELSE l.new_rows,
     file_path |-> IF outcome = "noop" THEN NoPath ELSE l.file_path,
     window |-> l.window, mark |-> l.mark, second |-> l.second,
     over |-> IF outcome = "noop" THEN tick.over ELSE l.over]

\* Lines 110-128, the file work of a tick for the delta new_rows and the
\* bucket key file_path, up to the next sleep or to the exception that ends
\* the task.
\*   fault the call that raises: "makedirs" (os.makedirs), "open"
\*         (pq.ParquetWriter), "write" (write_table), or "none"
flush_io(new_rows, file_path, fault) ==
    LET reopen == need_open(parquet_writer, current_file_path, file_path)
        \* lines 118-119
        closed == IF reopen /\ parquet_writer # NoWriter
                  THEN [writers EXCEPT ![parquet_writer] = close(@)]
                  ELSE writers
        \* lines 121-126
        opened == IF reopen THEN Append(closed, ParquetWriter(file_path))
                            ELSE closed
        pw == IF reopen THEN Len(opened) ELSE parquet_writer
    IN  /\ fault = "open" => reopen
        /\ pf_pc' = IF fault = "none" THEN "sleep" ELSE "failed"
        /\ run_pc' = IF fault = "none" THEN run_pc ELSE gather_raises(run_pc)
        /\ CASE fault = "makedirs" ->
                  UNCHANGED <<parquet_writer, current_file_path, writers>>
             [] fault = "open" ->
                  /\ writers' = closed
                  /\ UNCHANGED <<parquet_writer, current_file_path>>
             [] fault = "write" ->
                  /\ writers' = opened
                  /\ parquet_writer' = pw
                  /\ current_file_path' =
                         IF reopen THEN file_path ELSE current_file_path
             [] OTHER ->
                  /\ writers' = [opened EXCEPT
                                   ![pw] = write_table(@, new_rows)]
                  /\ parquet_writer' = pw
                  /\ current_file_path' =
                         IF reopen THEN file_path ELSE current_file_path

\* One iteration of parquet_flush's loop, from the return of asyncio.sleep
\* to the next sleep (or to the exception that ends the task). No await lies
\* in between, so no append and no cancellation interleaves.
\*   t2    the minute the second datetime.now() (time_slot) reads; the first
\*         (today) reads clock
\*   fault the call of the file work that raises, or "none"
parquet_flush_tick(t2, fault) ==
    /\ pf_pc = "sleep"
    /\ LET l == tick_locals(t2)
       IN  IF nothing_new(l.total_rows, last_flush_idx)
           THEN \* continue
                /\ t2 = clock
                /\ fault = "none"
                /\ tick' = tick_record(l, "noop")
                /\ UNCHANGED <<last_flush_idx, parquet_writer,
                               current_file_path, writers, clock, pf_pc,
                               run_pc>>
           ELSE /\ last_flush_idx' = l.total_rows
                /\ clock' = t2
                /\ tick' = tick_record(l, IF fault = "none" THEN "ok"
                                                            ELSE fault)
                /\ flush_io(l.new_rows, l.file_path, fault)
    /\ UNCHANGED <<raw, ring, final_files, mdl_pc, appended, steps>>

\* -------------------------------------------------------- run, cancelled

\* run() is cancelled while it awaits the gather: the gather cancels both
\* tasks, each gets CancelledError at its await (connect or recv, sleep) and
\* re-raises it, and when both have ended CancelledError is raised in run().
run_cancelled ==
    /\ run_pc = "gather"
    /\ run_pc' = "handler"
    /\ mdl_pc' = "cancelled"
    /\ pf_pc' = "cancelled"
    /\ UNCHANGED <<raw, ring, last_flush_idx, parquet_writer, current_file_path,
                   writers, final_files, clock, appended, tick, steps>>

\* Task.cancel(): a task that has ended stays as it ended.
cancel(pc) == IF pc \in {"connect", "recv", "sleep"} THEN "cancelled" ELSE pc

\* lines 147-150: t.cancel() for both tasks, and the gather that waits for
\* them with return_exceptions=True.
run_await_tasks ==
    /\ run_pc = "handler"
    /\ mdl_pc' = cancel(mdl_pc)
    /\ pf_pc' = cancel(pf_pc)
    /\ run_pc' = "final_flush"
    /\ steps' = Append(steps, "cancel_await")
    /\ UNCHANGED <<raw, ring, last_flush_idx, parquet_writer, current_file_path,
                   writers, final_files, clock, appended, tick>>

\* A defect of the final flush: the rows go to the open bucket writer and no
\* FINAL file is written.
run_final_flush_into_bucket ==
    /\ run_pc = "final_flush"
    /\ LET data == linear_view(ring)
       IN  writers' =
               IF last_flush_idx < Len(data) /\ parquet_writer # NoWriter
               THEN [writers EXCEPT ![parquet_writer] =
                        write_table(@, SubSeq(data, last_flush_idx + 1,
                                              Len(data)))]
               ELSE writers
    /\ run_pc' = "close_writer"
    /\ steps' = Append(steps, "final_flush")
    /\ UNCHANGED <<raw, ring, last_flush_idx, parquet_writer, current_file_path,
                   final_files, clock, mdl_pc, pf_pc, appended, tick>>

\* A defect of the final flush: the whole view is written, not the rows
\* beyond last_flush_idx.
run_final_flush_whole_view ==
    /\ run_pc = "final_flush"
    /\ LET data == linear_view(ring)
       IN  final_files' =
               IF last_flush_idx < Len(data)
               THEN Append(final_files,
                           [path |-> <<"FINAL", Day(clock), Slot(clock)>>,
                            rows |-> data])
               ELSE final_files
    /\ run_pc' = "close_writer"
    /\ steps' = Append(steps, "final_flush")
    /\ UNCHANGED <<raw, ring, last_flush_idx, parquet_writer, current_file_path,
                   writers, clock, mdl_pc, pf_pc, appended, tick>>

\* lines 153-160: the final flush, to a file of its own.
run_final_flush ==
    /\ run_pc = "final_flush"
    /\ LET data == linear_view(ring)
       IN  final_files' =
               IF last_flush_idx < Len(data)
               THEN Append(final_files,
                           [path |-> <<"FINAL", Day(clock), Slot(clock)>>,
                            rows |-> SubSeq(data, last_flush_idx + 1,
                                            Len(data))])
               ELSE final_files
    /\ run_pc' = "close_writer"
    /\ steps' = Append(steps, "final_flush")
    /\ UNCHANGED <<raw, ring, last_flush_idx, parquet_writer, current_file_path,
                   writers, clock, mdl_pc, pf_pc, appended, tick>>

\* lines 162-163
run_close_writer ==
    /\ run_pc = "close_writer"
    /\ writers' = IF parquet_writer # NoWriter
                  THEN [writers EXCEPT ![parquet_writer] = close(@)]
                  ELSE writers
    /\ run_pc' = "reraise"
    /\ steps' = Append(steps, "close_writer")
    /\ UNCHANGED <<raw, ring, last_flush_idx, parquet_writer, current_file_path,
                   final_files, clock, mdl_pc, pf_pc, appended, tick>>

\* line 165: CancelledError leaves run().
run_reraise ==
    /\ run_pc = "reraise"
    /\ run_pc' = "cancelled"
    /\ steps' = Append(steps, "reraise")
    /\ UNCHANGED <<raw, ring, last_flush_idx, parquet_writer, current_file_path,
                   writers, final_files, clock, mdl_pc, pf_pc, appended, tick>>

\* ------------------------------------------------------------------ Spec

\* The calls of a flush tick that may raise.
Faults == {"none", "makedirs", "open", "write"}

\* ws.recv() returns some payload of the feed.
recv_step == \E payload \in Feed : mdl_recv(payload)

\* asyncio.sleep returns; the clock may pass into the next minute between the
\* two datetime.now() calls of the tick, and any of its I/O calls may raise.
flush_step ==
    \E t2 \in {clock, clock + 1}, fault \in Faults :
        t2 <= MaxClock /\ parquet_flush_tick(t2, fault)

Next ==
    \/ advance_clock
    \/ run_start
    \/ mdl_connect
    \/ mdl_fails
    \/ recv_step
    \/ flush_step
    \/ run_cancelled
    \/ run_await_tasks
    \/ run_final_flush
    \/ run_close_writer
    \/ run_reraise

Spec == Init /\ [][Next]_vars

\* ------------------------------------------------------ the drain, alone

\* The updates and payloads of the feed, with the wider bounds.
WideUpdates ==
    [parsed : {TRUE}, type : {"Bid", "Ask", "Trade"}, depth : 0..WideDepth]
    \cup {[parsed |-> FALSE, type |-> "", depth |-> 0]}

WidePayloads == UNION {[1..n -> WideUpdates] : n \in 0..WideChain}

\* What was appended before the payload arrived: nothing, or one row.
Prior == {<<>>, stamp(<<[side |-> "Bid", level |-> 1]>>, 0)}

\* A running recorder whose ws.recv() has just returned raw (line 64): any
\* payload, on any capacity, before a first flush tick.
InitDrain ==
    /\ appended \in Prior
    /\ \E c \in 1..MaxSize : ring = append_all(RingBuffer(c), appended)
    /\ raw \in WidePayloads
    /\ last_flush_idx = 0
    /\ parquet_writer = NoWriter
    /\ current_file_path = NoPath
    /\ writers = <<>>
    /\ final_files = <<>>
    /\ clock = 0
    /\ mdl_pc = "drain"
    /\ pf_pc = "sleep"
    /\ run_pc = "gather"
    /\ tick = [outcome |-> "none", before |-> 0, new_rows |-> <<>>,
               file_path |-> NoPath, window |-> <<>>, mark |-> 0,
               second |-> FALSE, over |-> <<>>]
    /\ steps = <<>>

\* Lines 65-84 for the payload received: the inner loop runs to its end
\* (line 84), where raw still is the payload.
drain_step ==
    /\ mdl_pc = "drain"
    /\ mdl_drain(raw)
    /\ mdl_pc' = "drained"
    /\ UNCHANGED raw

SpecDrain == InitDrain /\ [][drain_step]_vars

\* ------------------------------------------- the flush tick, step by step

\* A defect of the scheduling: tasks are preempted, as threads are.
loop_free_preemptive == TRUE

\* The event loop runs one task at a time, and a task keeps the loop until
\* its next await. parquet_flush has no await between line 96 and line 128
\* (os.makedirs, pq.ParquetWriter, close and write_table are plain calls):
\* while its file work is in progress the loop is not free, and it neither
\* resumes another task nor delivers a cancellation.
loop_free == pf_pc # "io"

\* Lines 96-100 of a tick that finds nothing new.
flush_noop ==
    /\ nothing_new(Len(linear_view(ring)), last_flush_idx)
    /\ parquet_flush_tick(clock, "none")

\* Lines 96-108 of a tick that finds new rows: the view is captured, the
\* cursor is advanced and the wall clock is read; the file work follows.
flush_capture(t2) ==
    /\ pf_pc = "sleep"
    /\ LET l == tick_locals(t2)
       IN  /\ ~nothing_new(l.total_rows, last_flush_idx)
           /\ last_flush_idx' = l.total_rows
           /\ clock' = t2
           /\ tick' = tick_record(l, "io")
    /\ pf_pc' = "io"
    /\ UNCHANGED <<raw, ring, parquet_writer, current_file_path, writers,
                   final_files, mdl_pc, run_pc, appended, steps>>

\* Lines 110-128 of that tick.
flush_file_work(fault) ==
    /\ pf_pc = "io"
    /\ flush_io(tick.new_rows, tick.file_path, fault)
    /\ tick' = [tick EXCEPT !.outcome = IF fault = "none" THEN "ok" ELSE fault]
    /\ UNCHANGED <<raw, ring, last_flush_idx, final_files, clock, mdl_pc,
                   appended, steps>>

\* The ingest task is resumed: ws.recv() returns a payload.
ingest_step == loop_free /\ recv_step

capture_step ==
    \E t2 \in {clock, clock + 1} : t2 <= MaxClock /\ flush_capture(t2)

file_work_step == \E fault \in Faults : flush_file_work(fault)

NextIO ==
    \/ advance_clock
    \/ loop_free /\ run_start
    \/ loop_free /\ mdl_connect
    \/ loop_free /\ mdl_fails
    \/ ingest_step
    \/ loop_free /\ flush_noop
    \/ loop_free /\ capture_step
    \/ file_work_step
    \/ loop_free /\ run_cancelled
    \/ loop_free /\ run_await_tasks
    \/ loop_free /\ run_final_flush
    \/ loop_free /\ run_close_writer
    \/ loop_free /\ run_reraise

\* The recorder with the two halves of a flush tick as separate steps.
SpecIO == Init /\ [][NextIO]_vars

\* ---------------------------------------------------------------- claims

\* The rows of a sequence of rows, as a set.
Range(f) == {f[k] : k \in DOMAIN f}

\* How often row r occurs in the sequence rows.
Count(r, rows) == Cardinality({k \in DOMAIN rows : rows[k] = r})

\* The rows regular flush ticks handed to bucket writers.
BucketRows == UNION {Range(writers[i].rows) : i \in DOMAIN writers}

\* The rows written to FINAL files.
FinalRows == UNION {Range(final_files[i].rows) : i \in DOMAIN final_files}

IsPrefix(a, b) == Len(a) <= Len(b) /\ a = SubSeq(b, 1, Len(a))

\* C1: after n appends to a fresh buffer of capacity C, linear_view() is the
\* n appended rows in append order when n <= C, and the last C appended rows,
\* oldest first, when n > C.
C1_LinearViewIsLastC ==
    LET n == Len(appended)
        C == ring.size
    IN  linear_view(ring) = IF n <= C THEN appended
                                      ELSE SubSeq(appended, n - C + 1, n)

\* C1 witness: more rows than the capacity were appended and the view spans
\* the wrap of a buffer of at least two slots.
C1_Witness ==
    /\ ring.size >= 2
    /\ Len(appended) > ring.size
    /\ ring.full
    /\ ring.write_idx # 0

\* C2 (as claimed): when at most C rows were appended between two consecutive
\* flush ticks, each of them occurs exactly once in the new_rows of the second
\* tick.
C2_NoLossWithoutOverflow ==
    (tick.second /\ Len(tick.window) <= ring.size)
        => \A k \in DOMAIN tick.window :
               Count(tick.window[k], tick.new_rows) = 1

\* C3 (as claimed, for the rows the ring still holds at the cancellation):
\* after the final flush, every appended row that no regular flush wrote is
\* in the FINAL file, and no row of the FINAL file was written by a regular
\* flush.
C3_ShutdownComplete ==
    run_pc \in {"close_writer", "reraise", "cancelled"}
        => /\ \A r \in Range(linear_view(ring)) :
                  r \notin BucketRows => r \in FinalRows
           /\ FinalRows \cap BucketRows = {}

\* C4 (as claimed): after a flush tick whose write failed, last_flush_idx has
\* the value it had before the tick.
C4_CursorKeptOnFailure ==
    tick.outcome \in {"makedirs", "open", "write"}
        => last_flush_idx = tick.before

\* C5 (as claimed): when a loop's failure has left run(), the final flush and
\* the close of the bucket writer have been executed.
C5_CleanupBeforeFailure ==
    run_pc = "failed"
        => /\ \E i, j \in DOMAIN steps :
                  i < j /\ steps[i] = "final_flush" /\ steps[j] = "close_writer"
           /\ \A i \in DOMAIN writers : ~writers[i].is_open

\* C6 (as claimed): when run() has been left, by a cancellation or by a
\* failure, both loops have ended.
C6_LoopsEndedAtExit ==
    run_pc \in {"failed", "cancelled"}
        => /\ mdl_pc \in {"failed", "cancelled"}
           /\ pf_pc \in {"failed", "cancelled"}

\* C7: last_flush_idx never decreases, and in every state
\* 0 <= last_flush_idx <= len(linear_view()) <= C.
C7_CursorInRange ==
    /\ [](/\ 0 <= last_flush_idx
          /\ last_flush_idx <= Len(linear_view(ring))
          /\ Len(linear_view(ring)) <= ring.size)
    /\ [][last_flush_idx' >= last_flush_idx]_vars

\* C7 witness: a flush tick sliced the view of a wrapped buffer from a cursor
\* that an earlier tick had advanced.
C7_Witness ==
    /\ tick.outcome = "ok"
    /\ tick.before > 0
    /\ ring.full
    /\ Len(appended) > ring.size

\* C8, one successful non-empty flush tick: the delta goes to an open writer
\* for the bucket key file_path of the tick, which is the day the wall clock
\* shows when the tick starts and the slot it shows when the tick ends. While
\* the key is that of the open writer the delta is appended to that writer; at
\* the first tick with another
\* key the old writer is closed, once, its rows as they were, and the delta is
\* all that the newly opened writer holds.
C8_TickWrites ==
    (last_flush_idx' # last_flush_idx /\ pf_pc' = "sleep")
        => LET key == tick'.file_path
               delta == tick'.new_rows
               old == parquet_writer
               fresh == [path |-> key, is_open |-> TRUE, rows |-> delta,
                         closes |-> 0, late |-> 0]
           IN  /\ delta # <<>>
               /\ key = <<Day(clock), Slot(clock')>>
               /\ current_file_path' = key
               /\ IF old # NoWriter /\ current_file_path = key
                  THEN /\ parquet_writer' = old
                       /\ writers[old].is_open
                       /\ writers' = [writers EXCEPT ![old].rows = @ \o delta]
                  ELSE /\ parquet_writer' = Len(writers) + 1
                       /\ writers' =
                            Append(IF old = NoWriter THEN writers
                                   ELSE [writers EXCEPT ![old].is_open = FALSE,
                                                        ![old].closes = 1],
                                   fresh)

\* C8: every tick writes as C8_TickWrites says, only the writer
\* self.parquet_writer is ever open, and a writer is closed once.
C8_BucketRollover ==
    /\ [][C8_TickWrites]_vars
    /\ [](\A i \in DOMAIN writers :
            /\ writers[i].is_open => (i = parquet_writer /\ writers[i].closes = 0)
            /\ ~writers[i].is_open => writers[i].closes = 1)

\* C8 witness: deltas were written on both sides of a slot boundary; the old
\* bucket's writer is closed and the new bucket's writer is open.
C8_Witness ==
    /\ Len(writers) >= 2
    /\ tick.outcome = "ok"
    /\ parquet_writer = 2
    /\ writers[1].rows # <<>> /\ ~writers[1].is_open
    /\ writers[2].rows # <<>> /\ writers[2].is_open
    /\ writers[1].path # writers[2].path

\* C9 (as claimed): no writer is opened for the file path of a writer that
\* was closed, and nothing is written to a closed writer.
C9_ClosedNeverReopened ==
    /\ \A i, j \in DOMAIN writers :
            (i < j /\ ~writers[i].is_open)
                => writers[i].path # writers[j].path
    /\ \A i \in DOMAIN writers : writers[i].late = 0

\* The statements of run()'s handler, in the order of the source.
ShutdownSteps == <<"cancel_await", "final_flush", "close_writer", "reraise">>

\* C10, in every state: the handler's statements run in source order, each
\* once; once the tasks were awaited both have ended; the final flush writes
\* the rows beyond last_flush_idx to one FINAL file; the bucket writer is open
\* until the final flush is done and closed after it; a cancelled run() ends
\* by re-raising, after all four.
C10_State ==
    LET data == linear_view(ring)
        done == Len(steps)
    IN  /\ IsPrefix(steps, ShutdownSteps)
        /\ (mdl_pc = "cancelled" \/ pf_pc = "cancelled")
              => run_pc \in {"handler", "final_flush", "close_writer",
                             "reraise", "cancelled"}
        /\ run_pc = "cancelled" => steps = ShutdownSteps
        /\ done >= 1 => (mdl_pc = "cancelled" /\ pf_pc = "cancelled")
        /\ done < 2 => final_files = <<>>
        /\ done >= 2 =>
              IF last_flush_idx < Len(data)
              THEN /\ Len(final_files) = 1
                   /\ final_files[1].path[1] = "FINAL"
                   /\ final_files[1].rows =
                          SubSeq(data, last_flush_idx + 1, Len(data))
              ELSE final_files = <<>>
        /\ (run_pc \in {"handler", "final_flush", "close_writer"}
            /\ parquet_writer # NoWriter)
              => writers[parquet_writer].is_open
        /\ done >= 3 => \A i \in DOMAIN writers : ~writers[i].is_open

\* C10, one step of the handler: nothing is written to a bucket writer and
\* none is opened.
C10_Step ==
    run_pc \in {"handler", "final_flush", "close_writer", "reraise"}
        => /\ Len(writers') = Len(writers)
           /\ \A i \in DOMAIN writers : writers'[i].rows = writers[i].rows

\* C10: C10_State in every state and C10_Step in every step.
C10_ShutdownOrder == []C10_State /\ [][C10_Step]_vars

\* C10 witness: a cancelled run() has re-raised after a final flush that wrote
\* a FINAL file and after closing a bucket writer that held rows.
C10_Witness ==
    /\ run_pc = "cancelled"
    /\ final_files # <<>>
    /\ parquet_writer # NoWriter
    /\ writers[parquet_writer].rows # <<>>

\* A parsed update of a kind that is neither Bid nor Ask.
OtherKind(u) == u.parsed /\ u.type \notin {"Bid", "Ask"}

NotOtherKind(u) == ~OtherKind(u)

\* C11: an update whose kind is neither Bid nor Ask produces no row: when a
\* payload has been drained, the rows appended are those of the payload
\* without its updates of other kinds, so the updates after such an update
\* are still processed; a payload of such updates only leaves the ring
\* (slots, write_idx, full) as it was; the flush cursor is as it was.
C11_OtherKindsDiscarded ==
    mdl_pc = "drained"
        => \E pre \in Prior :
              LET before == append_all(RingBuffer(ring.size), pre)
                  known == SelectSeq(raw, NotOtherKind)
                  rows == stamp(drain(known), Len(pre))
              IN  /\ appended = pre \o rows
                  /\ ring = append_all(before, rows)
                  /\ (\A i \in DOMAIN raw : OtherKind(raw[i]))
                        => (appended = pre /\ ring = before)
                  /\ last_flush_idx = 0

\* C11 witness: a chain with an update of another kind, with depth levels,
\* between a Bid and an Ask update was drained on a ring that held a row, and
\* the Ask update after it was appended.
C11_Witness ==
    /\ mdl_pc = "drained"
    /\ Len(raw) = 3
    /\ raw[1].type = "Bid" /\ raw[1].depth = 1
    /\ OtherKind(raw[2]) /\ raw[2].depth = 1
    /\ raw[3].type = "Ask" /\ raw[3].depth = 1
    /\ Len(appended) = 3
    /\ appended[3].side = "Ask"

\* C13 (as claimed): while a flush tick is doing its file work and the ingest
\* task waits for a payload, the ingest task can take a step.
C13_IngestDuringFlushIO ==
    (pf_pc = "io" /\ mdl_pc = "recv") => ENABLED ingest_step

\* The rows of all bucket writers, in the order the writers were opened.
RECURSIVE WrittenUpTo(_)
WrittenUpTo(i) == IF i = 0 THEN <<>> ELSE WrittenUpTo(i - 1) \o writers[i].rows

\* C14, in every state where a cancellation can take effect in parquet_flush
\* (its sleep) or has done so: the bucket writers hold, delta after delta,
\* exactly the rows last_flush_idx was advanced over.
C14_State ==
    pf_pc \in {"sleep", "cancelled"} => WrittenUpTo(Len(writers)) = tick.over

\* C14, in every step: a task is cancelled only where it awaits, and while
\* the file work of a tick is due nothing is appended and no task is resumed
\* or cancelled; the tick goes on to its next sleep or to its exception.
C14_Step ==
    /\ (pf_pc' = "cancelled" /\ pf_pc # "cancelled") => pf_pc = "sleep"
    /\ (mdl_pc' = "cancelled" /\ mdl_pc # "cancelled")
          => mdl_pc \in {"connect", "recv"}
    /\ pf_pc = "io"
          => /\ appended' = appended
             /\ ring' = ring
             /\ mdl_pc' = mdl_pc
             /\ run_pc' \in {run_pc, "failed"}
             /\ pf_pc' \in {"io", "sleep", "failed"}
             /\ last_flush_idx' = last_flush_idx

\* C14: C14_State in every state and C14_Step in every step.
C14_CancelAtAwaitsOnly == []C14_State /\ [][C14_Step]_vars

\* C14 witness: run() was cancelled after two ticks had written their deltas
\* and while rows appended since then were not yet flushed.
C14_Witness ==
    /\ run_pc = "handler"
    /\ pf_pc = "cancelled"
    /\ tick.outcome = "ok"
    /\ tick.before > 0
    /\ Len(tick.over) >= 2
    /\ Len(appended) > Len(tick.over)

\* C15: after n appends to a buffer of capacity C, write_idx = n mod C, so
\* 0 <= write_idx < C; slot i holds the last row appended at an ordinal
\* congruent to i + 1 modulo C and was never assigned if there is none, so
\* each append overwrote the slot at write_idx and no other; full is true
\* exactly from the C-th append on; the view holds min(n, C) rows.
C15_AppendWraps ==
    LET n == Len(appended)
        C == ring.size
        at(i) == {k \in 1..n : (k - 1) % C = i}
    IN  /\ 0 <= ring.write_idx /\ ring.write_idx < C
        /\ ring.write_idx = n % C
        /\ ring.full <=> n >= C
        /\ \A i \in 0..(C - 1) :
               ring.buffer[i] =
                   IF at(i) = {} THEN NoRow
                   ELSE appended[CHOOSE k \in at(i) : \A j \in at(i) : j <= k]
        /\ Len(linear_view(ring)) = IF n <= C THEN n ELSE C

\* C15 witness: the C-th append to a buffer of at least two slots has just
\* wrapped write_idx to 0 and set full.
C15_Witness ==
    /\ ring.size >= 2
    /\ Len(appended) = ring.size
    /\ ring.write_idx = 0
    /\ ring.full

\* C16, one flush tick that finds a view no longer than last_flush_idx: the
\* tick is a no-op; the cursor, the open writer and its rows and
\* current_file_path stay as they were, and no writer and no file is added.
C16_NoopStep ==
    (pf_pc = "sleep" /\ tick' # tick
     /\ Len(linear_view(ring)) <= last_flush_idx)
        => /\ tick'.outcome = "noop"
           /\ pf_pc' = "sleep"
           /\ UNCHANGED <<last_flush_idx, parquet_writer, current_file_path,
                          writers, final_files>>

\* C16: every such tick is as C16_NoopStep says.
C16_NoopTick == [][C16_NoopStep]_vars

\* C16 witness: a tick was a no-op while a bucket writer was open and the
\* wall clock showed another slot than the one of that writer.
C16_Witness ==
    /\ tick.outcome = "noop"
    /\ pf_pc = "sleep"
    /\ parquet_writer # NoWriter
    /\ writers[parquet_writer].is_open
    /\ last_flush_idx > 0
    /\ current_file_path # <<Day(clock), Slot(clock)>>

\* The updates of a chain that are processed: those before the first one
\* process_data does not parse.
Live(chain) ==
    Cardinality({i \in DOMAIN chain : \A j \in 1..i : chain[j].parsed})

\* The rows due to the updates of a chain before its i-th: one per depth
\* level of each Bid or Ask update.
RECURSIVE RowsBefore(_, _)
RowsBefore(chain, i) ==
    IF i <= 1 THEN 0
    ELSE RowsBefore(chain, i - 1)
             + (IF chain[i - 1].type \in {"Bid", "Ask"}
                THEN chain[i - 1].depth ELSE 0)

\* C17: when a payload has been drained, the whole chain was processed in the
\* one step before the next receive: the rows appended for it are, update
\* after update in chain order, one row for each depth level of each Bid or
\* Ask update, level 1 first, with the side of that update; updates of other
\* kinds add nothing and the updates after them are appended all the same.
C17_ChainOrder ==
    mdl_pc = "drained"
        => \E pre \in Prior :
              LET n0 == Len(pre)
                  live == Live(raw)
              IN  /\ IsPrefix(pre, appended)
                  /\ Len(appended) = n0 + RowsBefore(raw, live + 1)
                  /\ \A i \in 1..live :
                        raw[i].type \in {"Bid", "Ask"}
                            => \A k \in 1..raw[i].depth :
                                  LET n == n0 + RowsBefore(raw, i) + k
                                  IN  appended[n] = [ts |-> n,
                                                     side |-> raw[i].type,
                                                     level |-> k]

\* C17 witness: a chain of a Bid update with two levels, an update of another
\* kind and an Ask update was drained, and three rows were appended.
C17_Witness ==
    /\ mdl_pc = "drained"
    /\ Len(raw) = 3
    /\ raw[1].type = "Bid" /\ raw[1].depth = 2
    /\ OtherKind(raw[2])
    /\ raw[3].type = "Ask" /\ raw[3].depth = 1
    /\ Len(appended) = 3
    /\ appended[2].level = 2
    /\ appended[3].side = "Ask"

\* The rows of all FINAL files, in the order the files were written.
RECURSIVE FinalUpTo(_)
FinalUpTo(i) ==
    IF i = 0 THEN <<>> ELSE FinalUpTo(i - 1) \o final_files[i].rows

\* The rows of a sequence are appended rows in append order, none twice.
InAppendOrder(rows) ==
    /\ \A k \in DOMAIN rows : rows[k] \in Range(appended)
    /\ \A i, j \in DOMAIN rows : i < j => rows[i].ts < rows[j].ts

\* C18: the rows handed to the bucket writers and to the FINAL file, taken in
\* the order they were handed over, are appended rows in append order, so no
\* appended row is handed over twice, the deltas are pairwise disjoint and
\* each delta is in append order; the same holds of the deltas the cursor
\* was advanced over.
C18_AtMostOnce ==
    /\ InAppendOrder(WrittenUpTo(Len(writers)) \o FinalUpTo(Len(final_files)))
    /\ InAppendOrder(tick.over)

\* C18 witness: more rows than the capacity were appended, the ring has
\* wrapped beyond a flushed prefix, and both a bucket writer and the FINAL
\* file hold rows.
C18_Witness ==
    /\ Len(appended) > ring.size
    /\ ring.size >= 2
    /\ BucketRows # {}
    /\ final_files # <<>>
    /\ ring.write_idx # 0

\* C19, in every state: the rows handed to bucket writers and FINAL files
\* are at most as many as the ring has slots.
C19_State ==
    Len(WrittenUpTo(Len(writers))) + Len(FinalUpTo(Len(final_files)))
        <= ring.size

\* C19, one step from a state with last_flush_idx = C: the cursor stays, a
\* flush tick is a no-op, no writer is opened, no row is written to a bucket
\* writer and no FINAL file is written.
C19_Step ==
    last_flush_idx = ring.size
        => /\ last_flush_idx' = last_flush_idx
           /\ tick' # tick => tick'.outcome = "noop"
           /\ Len(writers') = Len(writers)
           /\ \A i \in DOMAIN writers : writers'[i].rows = writers[i].rows
           /\ final_files' = final_files

\* C19: once last_flush_idx has reached the capacity nothing is flushed any
\* more, whatever is appended, and at most C rows are ever handed to writers.
C19_FlushingStops == []C19_State /\ [][C19_Step]_vars

\* C19 witness: with the cursor at the capacity, rows were appended, a tick
\* that had them in its window was a no-op, and the final flush of the
\* cancelled run() wrote no FINAL file.
C19_Witness ==
    /\ last_flush_idx = ring.size
    /\ tick.outcome = "noop"
    /\ tick.window # <<>>
    /\ Len(appended) > Len(tick.over)
    /\ run_pc = "cancelled"
    /\ final_files = <<>>

\* C20, in every state: at most one bucket writer is open; an open writer is
\* self.parquet_writer, and current_file_path is the path it was opened for.
C20_State ==
    /\ Cardinality({i \in DOMAIN writers : writers[i].is_open}) <= 1
    /\ \A i \in DOMAIN writers :
           writers[i].is_open
               => (i = parquet_writer /\ current_file_path = writers[i].path)

\* C20, one successful flush tick: the bucket key is read off the wall clock
\* of the tick (the day at its first reading, the slot at its second), the
\* delta is the end of the rows of the open writer, whose path is that key,
\* and no other writer receives a row.
C20_Step ==
    (tick' # tick /\ tick'.outcome = "ok")
        => LET key == <<Day(clock), Slot(clock')>>
               pw == parquet_writer'
               delta == tick'.new_rows
           IN  /\ pw \in DOMAIN writers'
               /\ writers'[pw].is_open
               /\ writers'[pw].path = key
               /\ current_file_path' = key
               /\ writers'[pw].rows =
                      (IF pw \in DOMAIN writers THEN writers[pw].rows
                                                ELSE <<>>) \o delta
               /\ \A i \in DOMAIN writers :
                      i # pw => writers'[i].rows = writers[i].rows

\* C20: C20_State in every state and C20_Step in every step.
C20_OneWriterPerKey == []C20_State /\ [][C20_Step]_vars

\* C20 witness: after a change of day a tick has written its delta to a
\* writer opened for the new day, the only open one of two.
C20_Witness ==
    /\ Len(writers) = 2
    /\ tick.outcome = "ok"
    /\ parquet_writer = 2
    /\ writers[2].is_open /\ ~writers[1].is_open
    /\ writers[2].rows = tick.new_rows
    /\ writers[1].path[1] = 0
    /\ writers[2].path[1] = 1
    /\ current_file_path = writers[2].path

====
